---- MODULE Spec2Model ----
(***************************************************************************)
(* Model of the scattering package: structure_factor (scattering.py),      *)
(* compute_van_hove / worker / compute_partial_van_hove / vhf_from_pvhf    *)
(* (van_hove.py) and get_dt (utils/utils.py).                              *)
(*                                                                         *)
(* Conventions.  Real numbers are exact rationals [n, d].  Arrays over the *)
(* radial axis are modelled by one radial bin, so a van Hove array is a    *)
(* sequence of rows (one number per row) and the radial axis r is a token  *)
(* naming its binning.  Python indices are 0-based in the code and kept    *)
(* 0-based in the model wherever they are frame or chunk numbers.          *)
(***************************************************************************)
EXTENDS Integers, Sequences, FiniteSets, TLC

VARIABLES
    \* the trajectory (input)
    top,              \* trj.top.atoms: sequence of [name, element]
    n_frames,         \* trj.n_frames
    dts,              \* np.diff(trj.time), in units of 1e-4
    \* structure_factor
    weighting_factor, n_points, ffq,
    sf_pc, sf_err, sf_elements, compositions, rdfs, sf_r,
    sf_i, sf_k, num, denom, S, sf_evals, sf_terms,
    \* compute_partial_van_hove
    selection1, selection2, chunk_length,
    pvh_pc, pvh_err, pvh_i, g_r_t, pvh_r, pvh_calls,
    \* compute_van_hove and worker
    parallel, partial, ff0,
    vh_pc, vh_err, unique_elements, data, jobs, joined, wstate,
    partial_dict, writers, vh_r, vh_calls, vh_mixed, vh_result,
    \* vhf_from_pvhf
    pd, vhf_pc, vhf_err, vhf_k, norm_coeff, total_grt

trjv == <<top, n_frames, dts>>
sfv  == <<weighting_factor, n_points, ffq, sf_pc, sf_err, sf_elements,
          compositions, rdfs, sf_r, sf_i, sf_k, num, denom, S, sf_evals,
          sf_terms>>
pvhv == <<selection1, selection2, chunk_length, pvh_pc, pvh_err, pvh_i,
          g_r_t, pvh_r, pvh_calls>>
vhv  == <<parallel, partial, ff0, vh_pc, vh_err, unique_elements, data,
          jobs, joined, wstate, partial_dict, writers, vh_r, vh_calls,
          vh_mixed, vh_result>>
vhfv == <<pd, vhf_pc, vhf_err, vhf_k, norm_coeff, total_grt>>
vars == <<trjv, sfv, pvhv, vhv, vhfv>>

-----------------------------------------------------------------------------
(* Bounds of the model *)
MaxAtoms  == 3     \* atoms in a topology
MaxFrames == 4     \* frames in a trajectory
MaxChunk  == 2     \* chunk_length
MaxPoints == 2     \* n_points of structure_factor
MaxKeys   == 2     \* keys of the partial_dict given to vhf_from_pvhf

-----------------------------------------------------------------------------
(* Exact arithmetic standing for the float arithmetic of the code *)
Abs(x) == IF x < 0 THEN -x ELSE x

RECURSIVE GCD(_, _)
GCD(a, b) == IF b = 0 THEN a ELSE GCD(b, a % b)

Rat(n, d) ==
    LET g == GCD(Abs(n), Abs(d))
        s == IF d < 0 THEN -1 ELSE 1
    IN  [n |-> (s * n) \div g, d |-> (s * d) \div g]

Zero == Rat(0, 1)
FromInt(k) == Rat(k, 1)
RAdd(a, b) == Rat(a.n * b.d + b.n * a.d, a.d * b.d)
RMul(a, b) == Rat(a.n * b.n, a.d * b.d)
RDiv(a, b) == Rat(a.n * b.d, a.d * b.n)      \* b.n # 0

Range(s) == {s[k] : k \in 1..Len(s)}

RECURSIVE SeqsUpTo(_, _)
SeqsUpTo(A, k) ==
    IF k = 0 THEN {<<>>}
    ELSE LET shorter == SeqsUpTo(A, k - 1)
         IN  shorter \cup {Append(s, a) : s \in {t \in shorter : Len(t) = k - 1}, a \in A}

\* the orders in which Python may iterate a set
Orders(A) == {s \in SeqsUpTo(A, Cardinality(A)) :
                 Len(s) = Cardinality(A) /\ Range(s) = A}

-----------------------------------------------------------------------------
(* The trajectory and the selection language of the trajectory library *)
PhysSymbols == {"O", "H"}
Symbols     == PhysSymbols \cup {"VS"}          \* VS: a massless virtual site
Mass(e)     == IF e = "VS" THEN 0 ELSE 1

Selections  == {"element O", "element H", "element VS", "all"}
ElementSel(e) == IF e = "O" THEN "element O"
                 ELSE IF e = "H" THEN "element H" ELSE "element VS"
\* elem.split()[1] of an 'element X' selection
SelSymbol(sel) == IF sel = "element O" THEN "O"
                  ELSE IF sel = "element H" THEN "H" ELSE "VS"

\* top.select(selection): the atom indices matching the selection
Select(sel) ==
    IF sel = "all" THEN 1..Len(top)
    ELSE {a \in 1..Len(top) : top[a].element = SelSymbol(sel)}

\* top.select("name X")
SelectName(nm) == {a \in 1..Len(top) : top[a].name = nm}

\* the elements of the atoms of a selection
ElementsOf(sel) == {top[a].element : a \in Select(sel)}

\* top.select_pairs(selection1, selection2): unordered index pairs a # b with
\* one atom in each selection
SelectPairs(s1, s2) ==
    {p \in SUBSET (1..Len(top)) :
        /\ Cardinality(p) = 2
        /\ \E a \in p : \E b \in p :
              a # b /\ ((a \in Select(s1) /\ b \in Select(s2))
                        \/ (a \in Select(s2) /\ b \in Select(s1)))}

-----------------------------------------------------------------------------
(* utils.get_dt *)
\* np.round(x, 3) of x = d * 1e-4, as a multiple of 1e-3 (round half to even)
Round3(d) ==
    LET q == d \div 10
        r == d % 10
    IN  IF r < 5 THEN q
        ELSE IF r > 5 THEN q + 1
        ELSE IF q % 2 = 0 THEN q ELSE q + 1

\* np.unique(np.round(np.diff(trj.time), 3))
UniqueDt(diffs) == {Round3(diffs[k]) : k \in 1..Len(diffs)}

\* get_dt without the check of lines 26-27
get_dt_unchecked(diffs) ==
    IF Cardinality(UniqueDt(diffs)) = 0 THEN "IndexError" ELSE "ok"

\* the outcome of get_dt: the error it raises, or "ok"
get_dt(diffs) ==
    IF Cardinality(UniqueDt(diffs)) > 1 THEN "ValueError"
    ELSE IF Cardinality(UniqueDt(diffs)) = 0 THEN "IndexError"
    ELSE "ok"

-----------------------------------------------------------------------------
(* The external collaborators *)
\* get_form_factor(element, q=Q[i]/10, method): a table of the provider
get_form_factor_q(e, i) == FromInt(ffq[e][i])

\* get_form_factor(element_name, water): the Q -> 0 value of the provider
get_form_factor(e) == FromInt(ff0[e])

\* The binning of every RDF of structure_factor: r_range=(0, L/2), bin_width=0.001
RBins == "0:L/2:0.001"

\* md.compute_rdf / rdf_by_frame for the pairs of two element selections:
\* the abstract RDF value is the number of index pairs it histograms
compute_rdf(e1, e2) ==
    [r |-> RBins,
     g_r |-> Cardinality(SelectPairs(ElementSel(e1), ElementSel(e2)))]

\* simps(r**2 * (g_r - 1) * sin(q r)/(q r), r) for Q[i]
simps(g, i) == FromInt(g * (i + 1))

\* 4 * pi * rho, rho = mean(n_atoms / unitcell_volumes), in units of 4 pi / V
PreFactor == FromInt(Len(top))

-----------------------------------------------------------------------------
(* scattering.structure_factor *)
Elements == {top[a].element : a \in 1..Len(top)}

\* it.product(elements, repeat=2), in the iteration order of the set
Product2(ord) ==
    [k \in 1..(Len(ord) * Len(ord)) |->
        <<ord[((k - 1) \div Len(ord)) + 1], ord[((k - 1) % Len(ord)) + 1]>>]

\* denom += compositions[elem] * get_form_factor(elem, q / 10) over the elements
RECURSIVE DenomSum(_, _, _)
DenomSum(ord, comp, i) ==
    IF ord = <<>> THEN Zero
    ELSE RAdd(DenomSum(Tail(ord), comp, i),
              RMul(comp[Head(ord)], get_form_factor_q(Head(ord), i)))

\* partial_sq = integral * pre_factor + 1 of a cached or fresh g_r at Q[i]
PartialSq(g, i) == RAdd(RMul(simps(g, i), PreFactor), FromInt(1))

\* NumTerm without the form factor of the second element
NumTermOneFormFactor(x_a, f_a, x_b, f_b, psq) ==
    RMul(RMul(RMul(x_a, f_a), x_b), psq)

\* one term of the numerator: (x_a * f_a * x_b * f_b) * partial_sq
NumTerm(x_a, f_a, x_b, f_b, psq) ==
    RMul(RMul(RMul(RMul(x_a, f_a), x_b), f_b), psq)

\* what the call has evaluated so far: counts of the evaluations, and for
\* every integral of line 124 the pair, the Q index and the arrays it used
NoEvals == [rho |-> 0, comp |-> 0, ff |-> 0, rdf |-> 0, integral |-> 0,
            uses |-> {}]

\* the letters of an element symbol
Chars(e) == IF e = "VS" THEN <<"V", "S">> ELSE <<e>>

\* RdfKey made of the first symbol only
RdfKeyFirstOnly(e1, e2) == Chars(e1)

\* lines 109 and 123: the cache key "{0}{1}".format(e1, e2)
RdfKey(e1, e2) == Chars(e1) \o Chars(e2)

\* SFValidate without the check of lines 60-66
SFValidateUnchecked ==
    /\ sf_pc = "start"
    /\ sf_pc' = "setup"
    /\ UNCHANGED <<weighting_factor, n_points, ffq, sf_err, sf_elements,
                   compositions, rdfs, sf_r, sf_i, sf_k, num, denom, S, sf_evals,
                   sf_terms>>
    /\ UNCHANGED <<trjv, pvhv, vhv, vhfv>>

\* lines 60-66: the weighting check
SFValidate ==
    /\ sf_pc = "start"
    /\ IF weighting_factor \notin {"fz"}
       THEN sf_pc' = "error" /\ sf_err' = "ValueError"
       ELSE sf_pc' = "setup" /\ UNCHANGED sf_err
    /\ UNCHANGED <<weighting_factor, n_points, ffq, sf_elements, compositions,
                   rdfs, sf_r, sf_i, sf_k, num, denom, S, sf_evals, sf_terms>>
    /\ UNCHANGED <<trjv, pvhv, vhv, vhfv>>

\* lines 68-87: density, box length, elements, compositions, seed form factors, Q, S
SFSetup ==
    /\ sf_pc = "setup"
    /\ \E ord \in Orders(Elements) :
          /\ sf_elements' = ord
          /\ IF n_points = 0
             \* Q is empty: Q[0] of line 86 raises in the first pass of the
             \* loop of line 81, after the composition of its element
             THEN /\ compositions' =
                        [e \in {ord[1]} |->
                            Rat(Cardinality(Select(ElementSel(e))), Len(top))]
                  /\ sf_evals' = [sf_evals EXCEPT !.rho = 1, !.comp = 1]
                  /\ sf_pc' = "error"
                  /\ sf_err' = "IndexError"
             ELSE /\ compositions' =
                        [e \in Elements |->
                            Rat(Cardinality(Select(ElementSel(e))), Len(top))]
                  /\ sf_evals' = [sf_evals EXCEPT !.rho = 1,
                                                  !.comp = Cardinality(Elements),
                                                  !.ff = Cardinality(Elements)]
                  /\ sf_pc' = "denom"
                  /\ UNCHANGED sf_err
    /\ S' = [i \in 0..(n_points - 1) |-> Zero]
    /\ sf_i' = 0
    /\ UNCHANGED <<weighting_factor, n_points, ffq, rdfs, sf_r, sf_k,
                   num, denom, sf_terms>>
    /\ UNCHANGED <<trjv, pvhv, vhv, vhfv>>

\* lines 89-96: start of one Q iteration
SFDenom ==
    /\ sf_pc = "denom"
    /\ num' = Zero
    /\ denom' = DenomSum(sf_elements, compositions, sf_i)
    /\ sf_evals' = [sf_evals EXCEPT !.ff = @ + Len(sf_elements)]
    /\ sf_k' = 1
    /\ sf_terms' = <<>>
    /\ sf_pc' = "pairs"
    /\ UNCHANGED <<weighting_factor, n_points, ffq, sf_err, sf_elements,
                   compositions, rdfs, sf_r, sf_i, S>>
    /\ UNCHANGED <<trjv, pvhv, vhv, vhfv>>

\* lines 98-129: one ordered pair of the cross product
SFPair ==
    /\ sf_pc = "pairs"
    /\ sf_k <= Len(sf_elements) * Len(sf_elements)
    /\ LET e1   == Product2(sf_elements)[sf_k][1]
           e2   == Product2(sf_elements)[sf_k][2]
           f_a  == get_form_factor_q(e1, sf_i)
           f_b  == get_form_factor_q(e2, sf_i)
           x_a  == compositions[e1]
           x_b  == compositions[e2]
           k    == RdfKey(e1, e2)
           hit  == k \in DOMAIN rdfs
           new  == compute_rdf(e1, e2)
           \* the array g_r: its binning (its length) and its content
           arr  == IF hit THEN rdfs[k] ELSE [bins |-> new.r, val |-> new.g_r]
           g_r  == arr.val
       IN  /\ rdfs' = IF hit THEN rdfs
                      ELSE [key \in DOMAIN rdfs \cup {k} |->
                               IF key = k THEN arr ELSE rdfs[key]]
           /\ sf_r' = IF hit THEN sf_r ELSE new.r
           /\ sf_evals' = [sf_evals EXCEPT
                              !.ff = @ + 2,
                              !.rdf = IF hit THEN @ ELSE @ + 1,
                              !.integral = @ + 1,
                              !.uses = @ \cup
                                  {[pair |-> <<e1, e2>>, i |-> sf_i, cached |-> hit,
                                    r |-> IF hit THEN sf_r ELSE new.r,
                                    g_r |-> arr]}]
           /\ num' = IF weighting_factor = "fz"
                     THEN RAdd(num, NumTerm(x_a, f_a, x_b, f_b, PartialSq(g_r, sf_i)))
                     ELSE num
           /\ sf_terms' = IF weighting_factor = "fz"
                          THEN Append(sf_terms, <<e1, e2>>) ELSE sf_terms
    /\ sf_k' = sf_k + 1
    /\ UNCHANGED <<weighting_factor, n_points, ffq, sf_pc, sf_err, sf_elements,
                   compositions, sf_i, denom, S>>
    /\ UNCHANGED <<trjv, pvhv, vhv, vhfv>>

\* line 130: S[i] = num / denom ** 2
SFStore ==
    /\ sf_pc = "pairs"
    /\ sf_k > Len(sf_elements) * Len(sf_elements)
    /\ S' = [S EXCEPT ![sf_i] = RDiv(num, RMul(denom, denom))]
    /\ sf_i' = sf_i + 1
    /\ sf_pc' = IF sf_i + 1 < n_points THEN "denom" ELSE "return"
    /\ UNCHANGED <<weighting_factor, n_points, ffq, sf_err, sf_elements,
                   compositions, rdfs, sf_r, sf_k, num, denom, sf_evals, sf_terms>>
    /\ UNCHANGED <<trjv, pvhv, vhv, vhfv>>

\* line 131: return Q, S
SFReturn ==
    /\ sf_pc = "return"
    /\ sf_pc' = "done"
    /\ UNCHANGED <<weighting_factor, n_points, ffq, sf_err, sf_elements,
                   compositions, rdfs, sf_r, sf_i, sf_k, num, denom, S,
                   sf_evals, sf_terms>>
    /\ UNCHANGED <<trjv, pvhv, vhv, vhfv>>

NextSF == SFValidate \/ SFSetup \/ SFDenom \/ SFPair \/ SFStore \/ SFReturn

-----------------------------------------------------------------------------
(* van_hove.compute_partial_van_hove *)
\* The binning of every van Hove histogram: r_range, bin_width, n_bins
VhBins == "r_range:bin_width:n_bins"

\* One row of md.compute_rdf_t: the histogram of the distances between the
\* pair atoms at frame t0 and at frame t1 (a value that tells the pair set and
\* the two frames apart)
HistVal(s1, s2, t0, t1) ==
    (Cardinality(SelectPairs(s1, s2)) + 1) * (1 + t0 + 10 * t1)

\* md.compute_rdf_t(traj, pairs, times, ...): one row per entry of times; a
\* frame index outside the trajectory is an IndexError
compute_rdf_t(s1, s2, times) ==
    IF \E j \in 1..Len(times) : times[j][1] >= n_frames \/ times[j][2] >= n_frames
    THEN [err |-> "IndexError", r |-> "unset", g |-> <<>>]
    ELSE [err |-> "none", r |-> VhBins,
          g |-> [j \in 1..Len(times) |->
                    HistVal(s1, s2, times[j][1], times[j][2])]]

\* lines 174-183: some selection holds more than one element
MultipleElements(s1, s2) ==
    \E sel \in {s1, s2} : Cardinality(ElementsOf(sel)) > 1

\* NChunks rounding up instead of down
NChunksCeil(L) == (n_frames + L - 1) \div L

\* line 190: n_chunks = int(trj.n_frames / chunk_length)
NChunks(L) == n_frames \div L

\* lines 196-198: the times of chunk i
ChunkTimes(i, L) == [j \in 1..L |-> <<L * i, L * i + (j - 1)>>]

\* lines 212-214: g_r_t += g_r_t_frame, g_r_t starting as zeros_like
AddRows(acc, rows) ==
    IF acc = <<>> THEN rows
    ELSE [j \in 1..Len(acc) |-> acc[j] + rows[j]]

PVHCheckElements ==
    /\ pvh_pc = "start"
    /\ IF MultipleElements(selection1, selection2)
       THEN pvh_pc' = "error" /\ pvh_err' = "UserWarning"
       ELSE pvh_pc' = "get_dt" /\ UNCHANGED pvh_err
    /\ UNCHANGED <<selection1, selection2, chunk_length, pvh_i, g_r_t, pvh_r,
                   pvh_calls>>
    /\ UNCHANGED <<trjv, sfv, vhv, vhfv>>

\* line 186
PVHGetDt ==
    /\ pvh_pc = "get_dt"
    /\ IF get_dt(dts) # "ok"
       THEN pvh_pc' = "error" /\ pvh_err' = get_dt(dts)
       ELSE pvh_pc' = "loop" /\ UNCHANGED pvh_err
    /\ pvh_i' = 0
    /\ UNCHANGED <<selection1, selection2, chunk_length, g_r_t, pvh_r, pvh_calls>>
    /\ UNCHANGED <<trjv, sfv, vhv, vhfv>>

\* lines 195-214: one chunk
PVHChunk ==
    /\ pvh_pc = "loop"
    /\ pvh_i < NChunks(chunk_length)
    /\ LET times == ChunkTimes(pvh_i, chunk_length)
           res   == compute_rdf_t(selection1, selection2, times)
       IN  /\ pvh_calls' = Append(pvh_calls, times)
           /\ IF res.err # "none"
              THEN /\ pvh_pc' = "error" /\ pvh_err' = res.err
                   /\ UNCHANGED <<g_r_t, pvh_r, pvh_i>>
              ELSE /\ pvh_r' = res.r
                   /\ g_r_t' = AddRows(g_r_t, res.g)
                   /\ pvh_i' = pvh_i + 1
                   /\ UNCHANGED <<pvh_pc, pvh_err>>
    /\ UNCHANGED <<selection1, selection2, chunk_length>>
    /\ UNCHANGED <<trjv, sfv, vhv, vhfv>>

\* line 216: return r, g_r_t (r is unbound when no chunk was processed)
PVHReturn ==
    /\ pvh_pc = "loop"
    /\ pvh_i >= NChunks(chunk_length)
    /\ IF pvh_r = "unset"
       THEN pvh_pc' = "error" /\ pvh_err' = "UnboundLocalError"
       ELSE pvh_pc' = "done" /\ UNCHANGED pvh_err
    /\ UNCHANGED <<selection1, selection2, chunk_length, pvh_i, g_r_t, pvh_r,
                   pvh_calls>>
    /\ UNCHANGED <<trjv, sfv, vhv, vhfv>>

NextPVH == PVHCheckElements \/ PVHGetDt \/ PVHChunk \/ PVHReturn

\* The whole call as a function of its arguments, for the callers
RECURSIVE SumChunks(_, _, _, _)
SumChunks(s1, s2, L, i) ==
    IF i = 0 THEN <<>>
    ELSE AddRows(SumChunks(s1, s2, L, i - 1),
                 compute_rdf_t(s1, s2, ChunkTimes(i - 1, L)).g)

compute_partial_van_hove(s1, s2, L) ==
    IF MultipleElements(s1, s2) THEN [err |-> "UserWarning", r |-> "unset", g |-> <<>>]
    ELSE IF get_dt(dts) # "ok" THEN [err |-> get_dt(dts), r |-> "unset", g |-> <<>>]
    ELSE IF NChunks(L) = 0 THEN [err |-> "UnboundLocalError", r |-> "unset", g |-> <<>>]
    ELSE [err |-> "none", r |-> VhBins, g |-> SumChunks(s1, s2, L, NChunks(L))]

-----------------------------------------------------------------------------
(* van_hove.compute_van_hove and van_hove.worker *)
\* line 46: the atoms with nonzero mass
n_physical_atoms == Cardinality({a \in 1..Len(top) : Mass(top[a].element) > 0})

\* line 47: the elements with nonzero mass
PhysicalElements == {top[a].element : a \in {b \in 1..Len(top) : Mass(top[b].element) > 0}}

\* unique_elements[::-1]
Reverse(s) == [k \in 1..Len(s) |-> s[Len(s) + 1 - k]]

\* it.combinations_with_replacement(s, 2): index pairs i <= j in lexicographic order
RECURSIVE CombFrom(_, _, _)
CombFrom(s, i, j) ==
    IF i > Len(s) THEN <<>>
    ELSE IF j > Len(s) THEN CombFrom(s, i + 1, i + 1)
    ELSE <<(<<s[i], s[j]>>)>> \o CombFrom(s, i, j + 1)

\* the pairs enumerated as the full cross product
combinations_as_product(s) == Product2(s)

combinations_with_replacement(s) == CombFrom(s, 1, 1)

\* lines 51-63 and 88-100: the selections of the pairs, in loop order
PairData(ord) ==
    LET c == combinations_with_replacement(Reverse(ord))
    IN  [k \in 1..Len(c) |-> <<ElementSel(c[k][1]), ElementSel(c[k][2])>>]

\* WorkerKey taking the first selection twice: key = (data[2], data[2])
WorkerKeyFirstTwice(d) == <<d[1], d[1]>>

\* line 135: key = (data[2], data[3])
WorkerKey(d) == <<d[1], d[2]>>

\* the key 'r' of the shared result map
RKey == <<"r">>

Workers == 1..Len(data)
Terminated(w) == wstate[w] \in {"done", "failed"}

\* d[key] = val on a mapping
Put(m, key, val) ==
    [x \in DOMAIN m \cup {key} |-> IF x = key THEN val ELSE m[x]]

\* del d[key]
Del(m, key) == [x \in DOMAIN m \ {key} |-> m[x]]

Wrote(w, key) ==
    [x \in DOMAIN writers \cup {key} |->
        IF x = key
        THEN (IF key \in DOMAIN writers THEN writers[key] ELSE {}) \cup {w}
        ELSE writers[x]]

\* lines 46-63 (and the head of the loop of line 88)
VHStart ==
    /\ vh_pc = "start"
    /\ \E ord \in Orders(PhysicalElements) :
          /\ unique_elements' = ord
          /\ data' = PairData(ord)
          /\ wstate' = [w \in 1..Len(PairData(ord)) |-> "new"]
          /\ vh_calls' = [key \in Range(PairData(ord)) |-> 0]
          /\ vh_pc' = IF parallel
                      THEN (IF Len(PairData(ord)) = 0 THEN "join" ELSE "dispatch")
                      ELSE (IF Len(PairData(ord)) = 0 THEN "collected" ELSE "seq")
    /\ UNCHANGED <<parallel, partial, ff0, vh_err, jobs, joined, partial_dict,
                   writers, vh_r, vh_mixed, vh_result>>
    /\ UNCHANGED <<trjv, sfv, pvhv, vhfv>>

\* lines 69-77: start the process of the next pair
VHDispatch ==
    /\ vh_pc = "dispatch"
    /\ jobs < Len(data)
    /\ wstate' = [wstate EXCEPT ![jobs + 1] = "running"]
    /\ jobs' = jobs + 1
    /\ vh_pc' = IF jobs + 1 = Len(data) THEN "join" ELSE "dispatch"
    /\ UNCHANGED <<parallel, partial, ff0, vh_err, unique_elements, data, joined,
                   partial_dict, writers, vh_r, vh_calls, vh_mixed, vh_result>>
    /\ UNCHANGED <<trjv, sfv, pvhv, vhfv>>

\* the running worker w has made the call of line 136
Called(w) == vh_calls[<<data[w][1], data[w][2]>>] > 0

\* lines 135-136: the worker computes its pair; an exception ends the process
WorkerCompute(w) ==
    /\ w \in Workers
    /\ wstate[w] = "running"
    /\ ~Called(w)
    /\ LET res == compute_partial_van_hove(data[w][1], data[w][2], chunk_length)
       IN  wstate' = IF res.err = "none" THEN wstate
                     ELSE [wstate EXCEPT ![w] = "failed"]
    /\ vh_calls' = [vh_calls EXCEPT ![<<data[w][1], data[w][2]>>] = @ + 1]
    /\ UNCHANGED <<parallel, partial, ff0, vh_pc, vh_err, unique_elements, data,
                   jobs, joined, partial_dict, writers, vh_r, vh_mixed, vh_result>>
    /\ UNCHANGED <<trjv, sfv, pvhv, vhfv>>

\* line 137: return_dict[key] = g_r_t_partial
WorkerWriteKey(w) ==
    /\ w \in Workers
    /\ wstate[w] = "running"
    /\ Called(w)
    /\ LET res == compute_partial_van_hove(data[w][1], data[w][2], chunk_length)
       IN  partial_dict' = Put(partial_dict, WorkerKey(data[w]), res.g)
    /\ writers' = Wrote(w, WorkerKey(data[w]))
    /\ wstate' = [wstate EXCEPT ![w] = "wrote_key"]
    /\ UNCHANGED <<parallel, partial, ff0, vh_pc, vh_err, unique_elements, data,
                   jobs, joined, vh_r, vh_calls, vh_mixed, vh_result>>
    /\ UNCHANGED <<trjv, sfv, pvhv, vhfv>>

\* line 138: return_dict['r'] = r, and the process exits
WorkerWriteR(w) ==
    /\ w \in Workers
    /\ wstate[w] = "wrote_key"
    /\ LET res == compute_partial_van_hove(data[w][1], data[w][2], chunk_length)
       IN  partial_dict' = Put(partial_dict, RKey, res.r)
    /\ writers' = Wrote(w, RKey)
    /\ wstate' = [wstate EXCEPT ![w] = "done"]
    /\ UNCHANGED <<parallel, partial, ff0, vh_pc, vh_err, unique_elements, data,
                   jobs, joined, vh_r, vh_calls, vh_mixed, vh_result>>
    /\ UNCHANGED <<trjv, sfv, pvhv, vhfv>>

\* a worker process dies (killed, out of memory) before or after its call of
\* line 136, or between line 137 and line 138
WorkerFail(w) ==
    /\ w \in Workers
    /\ wstate[w] \in {"running", "wrote_key"}
    /\ wstate' = [wstate EXCEPT ![w] = "failed"]
    /\ UNCHANGED <<parallel, partial, ff0, vh_pc, vh_err, unique_elements, data,
                   jobs, joined, partial_dict, writers, vh_r, vh_calls, vh_mixed,
                   vh_result>>
    /\ UNCHANGED <<trjv, sfv, pvhv, vhfv>>

\* VHJoin with a join that returns while the process is still running
VHJoinNoWait ==
    /\ vh_pc = "join"
    /\ joined < Len(data)
    /\ joined' = joined + 1
    /\ UNCHANGED <<parallel, partial, ff0, vh_pc, vh_err, unique_elements, data,
                   jobs, wstate, partial_dict, writers, vh_r, vh_calls, vh_mixed,
                   vh_result>>
    /\ UNCHANGED <<trjv, sfv, pvhv, vhfv>>

\* lines 79-80: proc.join() returns once the process has ended
VHJoin ==
    /\ vh_pc = "join"
    /\ joined < Len(data)
    /\ Terminated(joined + 1)
    /\ joined' = joined + 1
    /\ UNCHANGED <<parallel, partial, ff0, vh_pc, vh_err, unique_elements, data,
                   jobs, wstate, partial_dict, writers, vh_r, vh_calls, vh_mixed,
                   vh_result>>
    /\ UNCHANGED <<trjv, sfv, pvhv, vhfv>>

\* lines 82-83: r = partial_dict['r']; del partial_dict['r']
VHExtractR ==
    /\ vh_pc = "join"
    /\ joined = Len(data)
    /\ IF RKey \in DOMAIN partial_dict
       THEN /\ vh_r' = partial_dict[RKey]
            /\ partial_dict' = Del(partial_dict, RKey)
            /\ vh_pc' = "collected"
            /\ UNCHANGED vh_err
       ELSE /\ vh_pc' = "error"
            /\ vh_err' = "KeyError"
            /\ UNCHANGED <<vh_r, partial_dict>>
    /\ UNCHANGED <<parallel, partial, ff0, unique_elements, data, jobs, joined,
                   wstate, writers, vh_calls, vh_mixed, vh_result>>
    /\ UNCHANGED <<trjv, sfv, pvhv, vhfv>>

\* lines 88-100: one pair of the sequential loop
VHSeqPair ==
    /\ vh_pc = "seq"
    /\ jobs < Len(data)
    /\ LET d   == data[jobs + 1]
           res == compute_partial_van_hove(d[1], d[2], chunk_length)
       IN  /\ vh_calls' = [vh_calls EXCEPT ![<<d[1], d[2]>>] = @ + 1]
           /\ IF res.err # "none"
              THEN /\ vh_pc' = "error"
                   /\ vh_err' = res.err
                   /\ UNCHANGED <<vh_r, partial_dict, jobs>>
              ELSE /\ vh_r' = res.r
                   /\ partial_dict' = Put(partial_dict, <<d[1], d[2]>>, res.g)
                   /\ jobs' = jobs + 1
                   /\ vh_pc' = IF jobs + 1 = Len(data) THEN "collected" ELSE "seq"
                   /\ UNCHANGED vh_err
    /\ UNCHANGED <<parallel, partial, ff0, unique_elements, data, joined, wstate,
                   writers, vh_mixed, vh_result>>
    /\ UNCHANGED <<trjv, sfv, pvhv, vhfv>>

\* lines 85-100 as a whole: the mapping the sequential loop has built after
\* its first k pairs, and the r its last pair leaves
RECURSIVE SequentialDict(_)
SequentialDict(k) ==
    IF k = 0 THEN <<>>
    ELSE Put(SequentialDict(k - 1), <<data[k][1], data[k][2]>>,
             compute_partial_van_hove(data[k][1], data[k][2], chunk_length).g)

SequentialR ==
    IF Len(data) = 0 THEN "unset"
    ELSE compute_partial_van_hove(data[Len(data)][1], data[Len(data)][2],
                                  chunk_length).r

\* lines 102-103: return partial_dict
VHReturnPartial ==
    /\ vh_pc = "collected"
    /\ partial
    /\ vh_result' = [kind |-> "partial", dict |-> partial_dict]
    /\ vh_pc' = "done"
    /\ UNCHANGED <<parallel, partial, ff0, vh_err, unique_elements, data, jobs,
                   joined, wstate, partial_dict, writers, vh_r, vh_calls, vh_mixed>>
    /\ UNCHANGED <<trjv, sfv, pvhv, vhfv>>

\* lines 110-115: coeff = form_factor1 * concentration1 * form_factor2 * concentration2
Concentration(sel) == Rat(Cardinality(Select(sel)), n_physical_atoms)

Coeff(key) ==
    RMul(RMul(RMul(get_form_factor(SelSymbol(key[1])), Concentration(key[1])),
              get_form_factor(SelSymbol(key[2]))),
         Concentration(key[2]))

\* val * coeff, row by row
ScaleRows(rows, c) == [j \in 1..Len(rows) |-> RMul(FromInt(rows[j]), c)]

\* g_r_t += val * coeff
AddRatRows(acc, rows) ==
    IF acc = <<>> THEN rows
    ELSE [j \in 1..Len(acc) |-> RAdd(acc[j], rows[j])]

\* lines 108-120 over the items of the mapping: the weighted sum and the norm
RECURSIVE MixSum(_, _)
MixSum(keys, dict) ==
    IF keys = {} THEN [g |-> <<>>, norm |-> Zero]
    ELSE LET key  == CHOOSE k \in keys : TRUE
             rest == MixSum(keys \ {key}, dict)
         IN  [g    |-> AddRatRows(rest.g, ScaleRows(dict[key], Coeff(key))),
              norm |-> RAdd(rest.norm, Coeff(key))]

RECURSIVE SumRows(_, _)
SumRows(g, idx) ==
    IF idx = {} THEN Zero
    ELSE LET k == CHOOSE x \in idx : TRUE
         IN  RAdd(g[k + 1], SumRows(g, idx \ {k}))

\* np.mean(g_r_t[i::chunk_length], axis=0): the rows i, i+L, i+2L, ... of g_r_t
StrideMean(g, i, L) ==
    LET idx == {k \in 0..(Len(g) - 1) : k >= i /\ (k - i) % L = 0}
    IN  RDiv(SumRows(g, idx), FromInt(Cardinality(idx)))

\* lines 123-127: the reshape and the normalisation
Reshape(g, L, norm) ==
    [j \in 1..L |-> RDiv(StrideMean(g, j - 1, L), norm)]

\* lines 105-131: mix the partials and return r, t, g_r_t_final
VHMix ==
    /\ vh_pc = "collected"
    /\ ~partial
    /\ LET keys == DOMAIN partial_dict
           mix  == MixSum(keys, partial_dict)
       IN  /\ vh_mixed' = keys
           /\ IF vh_r = "unset"
              THEN /\ vh_pc' = "error"
                   /\ vh_err' = "UnboundLocalError"
                   /\ UNCHANGED vh_result
              ELSE /\ vh_result' = [kind |-> "total", r |-> vh_r,
                                    g |-> Reshape(mix.g, chunk_length, mix.norm)]
                   /\ vh_pc' = "done"
                   /\ UNCHANGED vh_err
    /\ UNCHANGED <<parallel, partial, ff0, unique_elements, data, jobs, joined,
                   wstate, partial_dict, writers, vh_r, vh_calls>>
    /\ UNCHANGED <<trjv, sfv, pvhv, vhfv>>

NextVH ==
    \/ VHStart \/ VHDispatch \/ VHJoin \/ VHExtractR \/ VHSeqPair
    \/ VHReturnPartial \/ VHMix
    \/ \E w \in Workers :
          WorkerCompute(w) \/ WorkerWriteKey(w) \/ WorkerWriteR(w) \/ WorkerFail(w)

-----------------------------------------------------------------------------
(* van_hove.vhf_from_pvhf *)
\* line 296: the element symbol of every atom
Atoms == [a \in 1..Len(top) |-> top[a].element]

\* the keys of partial_dict, each as the tokens atom_pair.split("-") yields
Keys(d) == {d[k].key : k \in 1..Len(d)}
Lookup(d, key) == d[CHOOSE k \in 1..Len(d) : d[k].key = key].val

\* lines 313-316
VhfCoeff(atom1, atom2) ==
    RMul(RMul(RMul(get_form_factor(atom1), get_form_factor(atom2)),
              Rat(Cardinality(SelectName(atom1)), Len(top))),
         Rat(Cardinality(SelectName(atom2)), Len(top)))

\* lines 295-299: the shape of the total is that of the first atom's self pair
VHFStart ==
    /\ vhf_pc = "start"
    /\ IF <<Atoms[1], Atoms[1]>> \in Keys(pd)
       THEN /\ total_grt' = Zero
            /\ norm_coeff' = Zero
            /\ vhf_k' = 1
            /\ vhf_pc' = "loop"
            /\ UNCHANGED vhf_err
       ELSE /\ vhf_pc' = "error"
            /\ vhf_err' = "KeyError"
            /\ UNCHANGED <<total_grt, norm_coeff, vhf_k>>
    /\ UNCHANGED pd
    /\ UNCHANGED <<trjv, sfv, pvhv, vhv>>

\* lines 301-320: one key of the mapping
VHFKey ==
    /\ vhf_pc = "loop"
    /\ vhf_k <= Len(pd)
    /\ LET atom_pair_check == pd[vhf_k].key
       IN  IF Len(atom_pair_check) # 2
           THEN /\ vhf_pc' = "error"
                /\ vhf_err' = "ValueError: key not valid"
                /\ UNCHANGED <<total_grt, norm_coeff, vhf_k>>
           ELSE IF \E t \in 1..2 : atom_pair_check[t] \notin Range(Atoms)
           THEN /\ vhf_pc' = "error"
                /\ vhf_err' = "ValueError: key must be atoms"
                /\ UNCHANGED <<total_grt, norm_coeff, vhf_k>>
           ELSE LET coeff == VhfCoeff(atom_pair_check[1], atom_pair_check[2])
                IN  /\ norm_coeff' = RAdd(norm_coeff, coeff)
                    /\ total_grt' = RAdd(total_grt,
                                         RMul(coeff, FromInt(pd[vhf_k].val)))
                    /\ vhf_k' = vhf_k + 1
                    /\ UNCHANGED <<vhf_pc, vhf_err>>
    /\ UNCHANGED pd
    /\ UNCHANGED <<trjv, sfv, pvhv, vhv>>

\* lines 322-326: total_grt /= norm_coeff (nan when the norm is zero)
VHFFinish ==
    /\ vhf_pc = "loop"
    /\ vhf_k > Len(pd)
    /\ total_grt' = IF norm_coeff.n = 0 THEN [n |-> 0, d |-> 0]
                    ELSE RDiv(total_grt, norm_coeff)
    /\ vhf_pc' = "done"
    /\ UNCHANGED <<pd, vhf_err, vhf_k, norm_coeff>>
    /\ UNCHANGED <<trjv, sfv, pvhv, vhv>>

NextVHF == VHFStart \/ VHFKey \/ VHFFinish

-----------------------------------------------------------------------------
(* The calls explored: inputs and initial states *)
AtomO  == [name |-> "O",  element |-> "O"]
AtomH  == [name |-> "H",  element |-> "H"]
AtomH1 == [name |-> "H1", element |-> "H"]     \* a hydrogen named as in water models
AtomVS == [name |-> "M",  element |-> "VS"]

\* all topologies of 1..MaxAtoms atoms of the given kinds
Topologies(kinds) == {t \in SeqsUpTo(kinds, MaxAtoms) : Len(t) >= 1}

\* those listing the kinds in the order of kindseq (one per composition)
Rank(kindseq, a) == CHOOSE k \in 1..Len(kindseq) : kindseq[k] = a
OrderedTopologies(kindseq) ==
    {t \in Topologies(Range(kindseq)) :
        \A k \in 1..(Len(t) - 1) : Rank(kindseq, t[k]) <= Rank(kindseq, t[k + 1])}

\* frame-to-frame time differences in units of 1e-4: 0.0010, 0.0011, 0.0020
DtVals == {10, 11, 20}
DtSeqs(nf, vals) == [1..(nf - 1) -> vals]
\* evenly spaced frames, and frames whose last step is twice as long
EvenOrLate(nf) == {[k \in 1..(nf - 1) |-> 10],
                   [k \in 1..(nf - 1) |-> IF k = nf - 1 THEN 20 ELSE 10]}

\* the values the form-factor provider may return
FFVals == {1, 2}

PartialVals == {1, 3}
KeyUniverse == {<<"O", "O">>, <<"O", "H">>, <<"H", "H">>,
                <<"C", "C", "C">>, <<"Xx", "Xx">>}
PartialDicts ==
    {d \in SeqsUpTo([key : KeyUniverse, val : PartialVals], MaxKeys) :
        \A i \in 1..Len(d) : \A j \in 1..Len(d) : i # j => d[i].key # d[j].key}

IdleSF ==
    /\ weighting_factor = "fz" /\ n_points = 0 /\ ffq = <<>>
    /\ sf_pc = "idle" /\ sf_err = "none" /\ sf_elements = <<>>
    /\ compositions = <<>> /\ rdfs = <<>> /\ sf_r = "unset"
    /\ sf_i = 0 /\ sf_k = 0 /\ num = Zero /\ denom = Zero /\ S = <<>>
    /\ sf_evals = NoEvals /\ sf_terms = <<>>

IdlePVH ==
    /\ selection1 = "all" /\ selection2 = "all"
    /\ pvh_pc = "idle" /\ pvh_err = "none" /\ pvh_i = 0
    /\ g_r_t = <<>> /\ pvh_r = "unset" /\ pvh_calls = <<>>

IdleVH ==
    /\ parallel = FALSE /\ partial = FALSE /\ ff0 = <<>>
    /\ vh_pc = "idle" /\ vh_err = "none" /\ unique_elements = <<>>
    /\ data = <<>> /\ jobs = 0 /\ joined = 0 /\ wstate = <<>>
    /\ partial_dict = <<>> /\ writers = <<>> /\ vh_r = "unset"
    /\ vh_calls = <<>> /\ vh_mixed = {} /\ vh_result = <<>>

IdleVHF ==
    /\ pd = <<>> /\ vhf_pc = "idle" /\ vhf_err = "none" /\ vhf_k = 0
    /\ norm_coeff = Zero /\ total_grt = Zero

\* structure_factor(trj, n_points, weighting_factor)
InitSF ==
    /\ top \in OrderedTopologies(<<AtomO, AtomH>>)
    /\ n_frames = 1 /\ dts = <<>> /\ chunk_length = 1
    /\ weighting_factor \in {"fz", "invalid"}
    /\ n_points \in 0..MaxPoints
    /\ ffq \in [Elements -> [0..(n_points - 1) -> FFVals]]
    /\ sf_pc = "start" /\ sf_err = "none" /\ sf_elements = <<>>
    /\ compositions = <<>> /\ rdfs = <<>> /\ sf_r = "unset"
    /\ sf_i = 0 /\ sf_k = 0 /\ num = Zero /\ denom = Zero /\ S = <<>>
    /\ sf_evals = NoEvals /\ sf_terms = <<>>
    /\ IdlePVH /\ IdleVH /\ IdleVHF

\* compute_partial_van_hove(trj, chunk_length, selection1, selection2)
InitPVH ==
    /\ top \in OrderedTopologies(<<AtomO, AtomH, AtomVS>>)
    /\ n_frames \in 1..MaxFrames
    /\ dts \in DtSeqs(n_frames, DtVals)
    /\ chunk_length \in 1..MaxChunk
    /\ selection1 \in {"element O", "element H", "all"}
    /\ selection2 \in {"element O", "element H", "all"}
    /\ pvh_pc = "start" /\ pvh_err = "none" /\ pvh_i = 0
    /\ g_r_t = <<>> /\ pvh_r = "unset" /\ pvh_calls = <<>>
    /\ IdleSF /\ IdleVH /\ IdleVHF

\* compute_van_hove(trj, chunk_length, parallel, partial)
InitVH ==
    /\ top \in OrderedTopologies(<<AtomO, AtomH, AtomVS>>)
    /\ n_frames \in 1..MaxFrames
    /\ dts \in EvenOrLate(n_frames)
    /\ chunk_length \in 1..MaxChunk
    /\ parallel \in BOOLEAN
    /\ partial \in BOOLEAN
    /\ ff0 \in [PhysicalElements -> FFVals]
    /\ vh_pc = "start" /\ vh_err = "none" /\ unique_elements = <<>>
    /\ data = <<>> /\ jobs = 0 /\ joined = 0 /\ wstate = <<>>
    /\ partial_dict = <<>> /\ writers = <<>> /\ vh_r = "unset"
    /\ vh_calls = <<>> /\ vh_mixed = {} /\ vh_result = <<>>
    /\ IdleSF /\ IdlePVH /\ IdleVHF

\* vhf_from_pvhf(trj, partial_dict)
InitVHF ==
    /\ top \in Topologies({AtomO, AtomH, AtomH1})
    /\ n_frames = 1 /\ dts = <<>> /\ chunk_length = 1
    /\ pd \in PartialDicts
    /\ ff0 \in [Elements -> FFVals]
    /\ vhf_pc = "start" /\ vhf_err = "none" /\ vhf_k = 0
    /\ norm_coeff = Zero /\ total_grt = Zero
    /\ parallel = FALSE /\ partial = FALSE
    /\ vh_pc = "idle" /\ vh_err = "none" /\ unique_elements = <<>>
    /\ data = <<>> /\ jobs = 0 /\ joined = 0 /\ wstate = <<>>
    /\ partial_dict = <<>> /\ writers = <<>> /\ vh_r = "unset"
    /\ vh_calls = <<>> /\ vh_mixed = {} /\ vh_result = <<>>
    /\ IdleSF /\ IdlePVH

Init == InitSF \/ InitPVH \/ InitVH \/ InitVHF
Next == NextSF \/ NextPVH \/ NextVH \/ NextVHF

Spec    == Init /\ [][Next]_vars
SpecSF  == InitSF /\ [][NextSF]_vars
SpecPVH == InitPVH /\ [][NextPVH]_vars
SpecVH  == InitVH /\ [][NextVH]_vars
SpecVHF == InitVHF /\ [][NextVHF]_vars

-----------------------------------------------------------------------------
(* Properties *)

\* C1: structure_factor with a weighting_factor other than "fz" never gets
\* past the check: it is at the check or has failed with ValueError, and no
\* density, composition, form factor, RDF or integral has been evaluated.
C1_UnsupportedWeightingFailsFirst ==
    (sf_pc # "idle" /\ weighting_factor # "fz") =>
        /\ sf_pc \in {"start", "error"}
        /\ sf_pc = "error" => sf_err = "ValueError"
        /\ sf_evals = NoEvals
        /\ rdfs = <<>> /\ compositions = <<>> /\ sf_r = "unset"

C1_Witness ==
    /\ sf_pc = "error" /\ sf_err = "ValueError"
    /\ weighting_factor = "invalid"
    /\ Cardinality(Elements) = 2

\* C2: whenever the partial_dict given to vhf_from_pvhf holds a key that does
\* not split into exactly two tokens, or a token that is no element of the
\* trajectory, the call returns no total and any error it raises is a
\* ValueError of the malformed-key kind.
C2_MalformedKeyIsValueError ==
    LET bad(key) == \/ Len(key) # 2
                    \/ \E t \in 1..Len(key) : key[t] \notin Range(Atoms)
    IN  (vhf_pc # "idle" /\ \E key \in Keys(pd) : bad(key)) =>
            /\ vhf_pc # "done"
            /\ vhf_pc = "error" =>
                  vhf_err \in {"ValueError: key not valid",
                               "ValueError: key must be atoms"}


\* C3: the total returned by compute_van_hove is, at every lag j, the mean
\* over the chunks of the mixed histogram of the frame pair (i*L, i*L+j):
\* n_chunks times the returned row equals the sum over the chunks.
C3_FinalIsMeanOverChunks ==
    (vh_pc = "done" /\ ~partial) =>
        LET L == chunk_length
            n == NChunks(L)
            mixed(t0, t1) ==
                LET m == MixSum(vh_mixed,
                                [key \in vh_mixed |->
                                    <<HistVal(key[1], key[2], t0, t1)>>])
                IN  RDiv(m.g[1], m.norm)
            perChunk(j) == [i \in 1..n |-> mixed((i - 1) * L, (i - 1) * L + j)]
        IN  \A j \in 0..(L - 1) :
               RMul(FromInt(n), vh_result.g[j + 1]) = SumRows(perChunk(j), 0..(n - 1))

\* C4: with a single species mixing is the identity.  structure_factor stores
\* S[i] = partial_sq of the self pair at every Q[i]; compute_van_hove returns
\* the self-pair partial unchanged; vhf_from_pvhf, given the self pair alone
\* and a composition of 1, returns its partial unchanged.
C4_SingleSpeciesMixingIsIdentity ==
    /\ (sf_pc \in {"denom", "pairs", "return", "done"} /\ Cardinality(Elements) = 1) =>
          \A i \in 0..(sf_i - 1) :
             \A e \in Elements : S[i] = PartialSq(compute_rdf(e, e).g_r, i)
    /\ (vh_pc = "done" /\ ~partial /\ Cardinality(PhysicalElements) = 1) =>
          \A e \in PhysicalElements :
             LET key == <<ElementSel(e), ElementSel(e)>>
             IN  /\ vh_mixed = {key}
                 /\ vh_result.g = [j \in 1..chunk_length |->
                                      FromInt(partial_dict[key][j])]
    /\ (vhf_pc = "done" /\ Cardinality(Elements) = 1) =>
          \A e \in Elements :
             (Keys(pd) = {<<e, e>>} /\ Cardinality(SelectName(e)) = Len(top)) =>
                total_grt = FromInt(Lookup(pd, <<e, e>>))

C4_Witness ==
    /\ sf_pc = "done" /\ Elements = {"O"} /\ Len(top) = 2
    /\ n_points = 2 /\ ffq["O"][0] = 2 /\ ffq["O"][1] = 1
    /\ S[1] = PartialSq(1, 1)

\* C5: compute_van_hove enumerates one pair per unordered pair of physical
\* elements, n(n+1)/2 of them and none in both orders, computes each at most
\* once and mixes exactly those whose computation was stored; the numerator
\* of structure_factor sums, for each Q, over the n*n ordered pairs.
C5_PairEnumeration ==
    /\ vh_pc \notin {"idle", "start"} =>
          LET n == Cardinality(PhysicalElements)
              failed == {w \in Workers : wstate[w] = "failed"}
          IN  /\ 2 * Len(data) = n * (n + 1)
              /\ \A i \in 1..Len(data) : \A j \in 1..Len(data) :
                    i # j => /\ data[i] # data[j]
                             /\ data[i] # <<data[j][2], data[j][1]>>
              /\ \A a \in PhysicalElements : \A b \in PhysicalElements :
                    \E k \in 1..Len(data) :
                       {data[k][1], data[k][2]} = {ElementSel(a), ElementSel(b)}
              /\ \A key \in DOMAIN vh_calls : vh_calls[key] <= 1
              /\ (vh_pc = "done" /\ ~partial) =>
                    /\ vh_mixed \subseteq Range(data)
                    /\ \A k \in 1..Len(data) :
                          data[k] \in vh_mixed \/ k \in failed
                    /\ failed = {} => 2 * Cardinality(vh_mixed) = n * (n + 1)
    /\ LET n == Cardinality(Elements)
       IN  (sf_pc \in {"return", "done"} \/ (sf_pc = "pairs" /\ sf_k > n * n)) =>
              /\ Len(sf_terms) = n * n
              /\ Range(sf_terms) = Elements \X Elements

C5_Witness ==
    /\ vh_pc = "done" /\ ~partial /\ parallel
    /\ Cardinality(PhysicalElements) = 2
    /\ Cardinality(vh_mixed) = 3


\* C6: in parallel mode the pipeline is past the join (it has extracted r,
\* returned, mixed, or failed on the extraction) only when every dispatched
\* worker process has ended.
C6_JoinBarrier ==
    (parallel /\ (vh_pc \in {"collected", "done", "error"}
                  \/ vh_r # "unset" \/ vh_mixed # {})) =>
        /\ jobs = Len(data) /\ joined = Len(data)
        /\ \A w \in Workers : Terminated(w)

C6_Witness ==
    /\ parallel /\ vh_pc = "done" /\ ~partial
    /\ Len(data) = 3
    /\ \A w \in Workers : wstate[w] = "done"

\* C7 as stated: no key of the shared map is written by two different workers.
C7_NoKeyWrittenTwice ==
    \A key \in DOMAIN writers : Cardinality(writers[key]) <= 1

\* C7, amended: every pair key of the shared map is written by one worker
\* only, the worker dispatched for that pair; the key 'r' is written by every
\* worker that completes.
C7_PairKeysHaveOneWriter ==
    \A key \in DOMAIN writers :
        IF key = RKey
        THEN {w \in Workers : wstate[w] = "done"} = writers[key]
        ELSE /\ Cardinality(writers[key]) <= 1
             /\ \A w \in writers[key] : key = <<data[w][1], data[w][2]>>

C7_Witness ==
    /\ RKey \in DOMAIN writers
    /\ Cardinality(writers[RKey]) = 3
    /\ Cardinality(DOMAIN writers) = 4

\* C8: when a worker process has failed (ended without writing the result of
\* its pair), parallel compute_van_hove returns nothing: neither the per-pair
\* mapping nor a mixed total.
C8_NoResultAfterWorkerFailure ==
    (parallel /\ vh_pc = "done") =>
        \A w \in Workers :
            ~(wstate[w] = "failed" /\ WorkerKey(data[w]) \notin DOMAIN writers)

\* C9 as stated: a selection with several elements, or a timestep that is
\* not constant, makes compute_partial_van_hove fail before the histogram
\* routine is called.
C9_NonConstantTimestepFails ==
    (pvh_pc # "idle"
        /\ (\/ MultipleElements(selection1, selection2)
            \/ \E a \in 1..Len(dts) : \E b \in 1..Len(dts) : dts[a] # dts[b])) =>
        /\ pvh_calls = <<>>
        /\ pvh_pc \in {"start", "get_dt", "error"}

\* C9, amended: a selection with several elements, or timesteps that differ
\* after rounding to 3 decimals, make compute_partial_van_hove fail before
\* the histogram routine is called; the routine is called only after both
\* checks have passed.
C9_ChecksPrecedeHistogram ==
    LET unequal == \E a \in 1..Len(dts) : \E b \in 1..Len(dts) :
                       Round3(dts[a]) # Round3(dts[b])
    IN  /\ (pvh_pc # "idle"
               /\ (MultipleElements(selection1, selection2) \/ unequal)) =>
              /\ pvh_calls = <<>>
              /\ pvh_pc \in {"start", "get_dt", "error"}
              /\ pvh_pc = "error" => pvh_err \in {"UserWarning", "ValueError"}
        /\ pvh_calls # <<>> =>
              /\ pvh_pc \in {"loop", "done"}
              /\ ~MultipleElements(selection1, selection2) /\ ~unequal

C9_Witness ==
    /\ pvh_pc = "error" /\ pvh_err = "ValueError"
    /\ ~MultipleElements(selection1, selection2)
    /\ dts = <<10, 11, 20>>
    /\ pvh_calls = <<>>

\* C10: compute_partial_van_hove processes floor(n_frames / L) chunks; the
\* frame pairs given to the histogram routine are exactly (i*L, i*L+j) for
\* i < n_chunks and j < L, each once and all inside the trajectory, so the
\* trailing n_frames mod L frames are never read; the returned row j is the
\* sum over the chunks of the histogram of (i*L, i*L+j).
C10_ChunkingAndRunningSum ==
    pvh_pc # "idle" =>
        LET L == chunk_length
            n == CHOOSE k \in 0..n_frames : k * L <= n_frames /\ n_frames < (k + 1) * L
            expected == {<<i * L, i * L + j>> : i \in 0..(n - 1), j \in 0..(L - 1)}
            used == UNION {Range(pvh_calls[c]) : c \in 1..Len(pvh_calls)}
            hist(j) == [i \in 1..n |->
                           FromInt(HistVal(selection1, selection2,
                                           (i - 1) * L, (i - 1) * L + j))]
        IN  /\ used \subseteq expected
            /\ \A p \in used : p[1] < n * L /\ p[2] < n * L /\ n * L <= n_frames
            /\ Len(pvh_calls) <= n
            /\ \A c \in 1..Len(pvh_calls) : \A e \in 1..Len(pvh_calls) :
                  c # e => Range(pvh_calls[c]) \cap Range(pvh_calls[e]) = {}
            /\ pvh_pc = "done" =>
                  /\ Len(pvh_calls) = n
                  /\ used = expected
                  /\ Len(g_r_t) = L
                  /\ \A j \in 0..(L - 1) :
                        FromInt(g_r_t[j + 1]) = SumRows(hist(j), 0..(n - 1))

C10_Witness ==
    /\ pvh_pc = "done"
    /\ n_frames = 4 /\ chunk_length = 2
    /\ Len(pvh_calls) = 2
    /\ pvh_calls[2] = <<(<<2, 2>>), (<<2, 3>>)>>


\* C11: within one structure_factor call with at least one Q value, the RDF of
\* each ordered element pair is computed exactly once, at the first Q value,
\* and every later Q iteration reuses the cached array: a finished call has
\* made as many RDF computations as there are ordered pairs, whatever
\* n_points is, each integral uses the array computed for its own pair, and
\* the radial axis r it uses has the binning of that array.
C11_RdfComputedOncePerPair ==
    LET n     == Cardinality(Elements)
        uses  == sf_evals.uses
    IN  /\ sf_evals.rdf = Cardinality(DOMAIN rdfs)
        /\ sf_evals.rdf <= n * n
        /\ \A u \in uses :
              /\ u.cached <=> u.i > 0
              /\ u.g_r = [bins |-> compute_rdf(u.pair[1], u.pair[2]).r,
                          val  |-> compute_rdf(u.pair[1], u.pair[2]).g_r]
              /\ u.g_r = rdfs[RdfKey(u.pair[1], u.pair[2])]
              /\ u.r = u.g_r.bins
        /\ \A a, b \in uses : (a.pair = b.pair /\ ~a.cached /\ ~b.cached) => a = b
        /\ (sf_pc \in {"return", "done"} /\ sf_err = "none") =>
              /\ sf_evals.rdf = n * n
              /\ sf_evals.integral = n * n * n_points
              /\ \A e1, e2 \in Elements : \A i \in 0..(n_points - 1) :
                    \E u \in uses : u.pair = <<e1, e2>> /\ u.i = i

\* a finished call over two elements and two Q values: four RDFs, eight integrals
C11_Witness ==
    /\ sf_pc = "done"
    /\ sf_err = "none"
    /\ n_points = 2
    /\ Cardinality(Elements) = 2
    /\ sf_evals.rdf = 4
    /\ sf_evals.integral = 8
    /\ \E u \in sf_evals.uses : u.cached /\ u.i = 1


\* C12: parallel and sequential compute_van_hove are equivalent: once every
\* worker has completed and the join loop is over, whatever the interleaving
\* of the workers was, the shared map with 'r' extracted and removed holds
\* the pair keys and per-pair values of the mapping the sequential loop
\* builds, and the extracted r is the sequential r.
C12_ParallelEqualsSequential ==
    /\ (~parallel /\ vh_pc \in {"collected", "done"}) =>
          /\ partial_dict = SequentialDict(Len(data))
          /\ vh_r = SequentialR
    /\ (/\ parallel
        /\ vh_pc \notin {"start", "dispatch"}
        /\ joined = Len(data)
        /\ \A w \in Workers : wstate[w] = "done"
        /\ ~ENABLED VHExtractR) =>
          /\ vh_pc \in {"collected", "done"}
          /\ partial_dict = SequentialDict(Len(data))
          /\ vh_r = SequentialR

====
